---- MODULE Spec2Model ----
(***************************************************************************)
(* Checkout reconciliation workflow of the storefront: the cart dialog     *)
(* (CartDialog), the order summary dialog (OrderSummaryDialog) and the     *)
(* cart / render-order / order services they talk to.                      *)
(***************************************************************************)
EXTENDS Integers, FiniteSets, Sequences, TLC

(***************************************************************************)
(* Bounds of the model.                                                    *)
(***************************************************************************)
\* largest quantity of a cart line
MaxQty == 2
\* largest available_quantity the render-order service reports
MaxAvail == 2
\* user actions that start a call to a service, over one run
MaxCalls == 5
\* render-order requests that may be outstanding together
MaxRender == 2
\* handleReCalculate calls that may be in their cart-PATCH phase together
MaxPatching == 1
\* GET /cart requests that may be outstanding together
MaxFetch == 1
\* handleRemoveUnavailable calls that may be outstanding together
MaxRemoving == 1
\* removeItem calls on one cart line that may be outstanding together
MaxRemovals == 1
\* largest requested / fulfillable quantity of the classification inputs
MaxLineQty == 5
\* largest stock (quantity) of a SKU of a product
MaxStock == 1
\* longest product.sku_list
MaxSkus == 4
\* longest product.property_image_list
MaxImages == 3
\* the Cart Store: the largest quantity of a line, the largest step of an
\* increment, and the number of line ids handed out
MaxStoreQty == 2
MaxDelta == 2
MaxLineItems == 2

\* SKU ids of the customer's cart
Skus == {"A", "B"}

(***************************************************************************)
(* Values.                                                                 *)
(***************************************************************************)
\* available_quantity?: number | null
NullQty == [tag |-> "null", n |-> 0]
UndefinedQty == [tag |-> "undefined", n |-> 0]
NumQty(k) == [tag |-> "number", n |-> k]
AvailQtys(max) == {NullQty, UndefinedQty} \cup {NumQty(k) : k \in 0..max}

\* one line of the render-order response (the fields the dialogs read)
Lines(max) ==
    [is_available : BOOLEAN, available_quantity : AvailQtys(max), quantity : 1..max]

\* a function with no argument: an empty cart, an empty Record<string, number>
Empty == [s \in {} |-> 0]

\* useState<any>(null)
NoData == [present |-> FALSE, line_items |-> Empty]
Data(lines) == [present |-> TRUE, line_items |-> lines]

\* messages of setError
NoError == ""
ErrLoad == "An error occurred while loading cart"
ErrUpdate == "Failed to update quantity"
ErrValidate == "Failed to validate checkout"
ErrReCalculate == "Failed to re-calculate order"
ErrNoItems == "No items selected for order"
ErrRemove == "Failed to remove item"
ErrOrder == "Failed to create order"

(***************************************************************************)
(* OrderSummaryDialog: the three buckets, as sets of SKU ids of a          *)
(* response's lines.                                                       *)
(***************************************************************************)
\* sku.available_quantity !== null && !== undefined && > 0
PositiveQty(q) == q.tag = "number" /\ q.n > 0

\* the test without its "=== undefined" arm
NoQty_NoUndefined(q) == q.tag = "null" \/ (q.tag = "number" /\ q.n = 0)

\* sku.available_quantity === null || === undefined || === 0
NoQty(q) == q.tag = "null" \/ q.tag = "undefined" \/ (q.tag = "number" /\ q.n = 0)

IsAvailableLine(l) == l.is_available

\* the filter without its "!sku.is_available" arm
IsInsufficientLine_NoFlag(l) == PositiveQty(l.available_quantity)

IsInsufficientLine(l) == ~l.is_available /\ PositiveQty(l.available_quantity)

IsUnavailableLine(l) == ~l.is_available /\ NoQty(l.available_quantity)

availableItems(lines) == {s \in DOMAIN lines : IsAvailableLine(lines[s])}

insufficientStockItems(lines) == {s \in DOMAIN lines : IsInsufficientLine(lines[s])}

unavailableItems(lines) == {s \in DOMAIN lines : IsUnavailableLine(lines[s])}

hasAdjustments(adj) == DOMAIN adj # {}

\* Math.max(0, Math.min(newQuantity, maxQuantity))
Min(a, b) == IF a < b THEN a ELSE b
Max(a, b) == IF a > b THEN a ELSE b
ClampQuantity(newQuantity, maxQuantity) == Max(0, Min(newQuantity, maxQuantity))

\* handleReCalculate, step 1: the adjusted lines PATCHed to the cart
PatchesOf(adj) == [s \in {t \in DOMAIN adj : adj[t] # 0} |-> adj[s]]

\* skuIdsToValidate without the filter on the adjusted quantity
skuIdsToValidate_KeepsZero(lines, adj) ==
    availableItems(lines) \cup insufficientStockItems(lines)

\* handleReCalculate, step 2: skuIdsToValidate
skuIdsToValidate(lines, adj) ==
    availableItems(lines) \cup
    {s \in insufficientStockItems(lines) : s \notin DOMAIN adj \/ adj[s] > 0}

\* handleCreateOrder: skuIdsToOrder
skuIdsToOrder(lastRendered, selected) ==
    IF lastRendered # {} THEN lastRendered ELSE selected

\* the Create Order button is rendered
CreateOrderShown(lines, adj) ==
    /\ availableItems(lines) # {}
    /\ ~hasAdjustments(adj)
    /\ insufficientStockItems(lines) = {}

(***************************************************************************)
(* ProductDetailPage: the product, its SKUs and their properties.          *)
(***************************************************************************)
PropNames == {"Color", "Size"}

ValueNames == [n \in PropNames |-> IF n = "Color" THEN {"Red", "Blue"} ELSE {"S", "M"}]

\* an entry of the properties of a SKU
Prop(propName, valueName) == [prop_name |-> propName, value_name |-> valueName]

\* the properties a SKU may carry: none, a Color only, or a Color and a Size
SkuProperties ==
    {<<>>} \cup
    {<<Prop("Color", c)>> : c \in ValueNames["Color"]} \cup
    {<<Prop("Color", c), Prop("Size", z)>> : c \in ValueNames["Color"], z \in ValueNames["Size"]}

\* a SKU of product.sku_list: `properties' stands for its displayProperties
\* (mlSkuProps?.properties || sku.properties), `quantity' is its stock
SkuValues == [properties : SkuProperties, quantity : 0..MaxStock]

SkuLists(n) == UNION {[1..k -> SkuValues] : k \in 0..n}

\* the "prop_id:value_id" keys of property_image_list, after split(';') and
\* trim(); "" is a pair that is blank
ImageKeys == {"", "1:1", "1:2"}

\* image_url; "" is a missing one
ImageUrls == {"", "a.jpg", "b.jpg"}

\* an entry of property_image_list: `properties' is the list of its pairs,
\* <<>> when the field is missing or empty
ImageEntries ==
    [properties : UNION {[1..k -> ImageKeys] : k \in 0..2}, image_url : ImageUrls]

ImageLists(n) == UNION {[1..k -> ImageEntries] : k \in 0..n}

\* useState(null), and the data of a successful item-detail response
NoProduct == [loaded |-> FALSE, sku_list |-> <<>>, property_image_list |-> <<>>]

LoadedProduct(skuList, imageList) ==
    [loaded |-> TRUE, sku_list |-> skuList, property_image_list |-> imageList]

\* useState<Record<string, string>>({})
NoSelection == [g \in {} |-> ""]

\* displayProperties.some(prop => prop.prop_name === propName && prop.value_name === valueName)
SomeProp(sku, propName, valueName) ==
    \E k \in 1..Len(sku.properties) :
        sku.properties[k].prop_name = propName /\ sku.properties[k].value_name = valueName

\* displayProperties.every(prop => selectedProperties[prop.prop_name] === prop.value_name)
EveryPropSelected(sku, selection) ==
    \A k \in 1..Len(sku.properties) :
        /\ sku.properties[k].prop_name \in DOMAIN selection
        /\ selection[sku.properties[k].prop_name] = sku.properties[k].value_name

\* isOptionAvailable without the test of the stock
isOptionAvailable_IgnoresStock(prod, selection, propName, valueName) ==
    IF ~prod.loaded THEN FALSE
    ELSE LET Matching(sku) == SomeProp(sku, propName, valueName)
             matchingSkus == SelectSeq(prod.sku_list, Matching)
             otherSelectedProps == DOMAIN selection \ {propName}
             Available(sku) ==
                 \A key \in otherSelectedProps : SomeProp(sku, key, selection[key])
             availableSkus == SelectSeq(matchingSkus, Available)
         IN  Len(availableSkus) > 0

\* isOptionAvailable without the test of the other selected properties
isOptionAvailable_IgnoresOthers(prod, selection, propName, valueName) ==
    IF ~prod.loaded THEN FALSE
    ELSE \E i \in 1..Len(prod.sku_list) :
            /\ SomeProp(prod.sku_list[i], propName, valueName)
            /\ prod.sku_list[i].quantity > 0

\* isOptionAvailable(propName, valueName), over the product and the
\* selectedProperties of the render
isOptionAvailable(prod, selection, propName, valueName) ==
    IF ~prod.loaded THEN FALSE
    ELSE LET Matching(sku) == SomeProp(sku, propName, valueName)
             matchingSkus == SelectSeq(prod.sku_list, Matching)
             otherSelectedProps == DOMAIN selection \ {propName}
             Available(sku) ==
                 /\ \A key \in otherSelectedProps : SomeProp(sku, key, selection[key])
                 /\ sku.quantity > 0
             availableSkus == SelectSeq(matchingSkus, Available)
         IN  Len(availableSkus) > 0

\* an updater that, setting a value, drops the values of the other groups
ToggleProperty_DropsOthers(prev, propName, valueName) ==
    IF propName \in DOMAIN prev /\ prev[propName] = valueName
    THEN [g \in DOMAIN prev \ {propName} |-> prev[g]]
    ELSE [g \in {propName} |-> valueName]

\* an updater that empties the selection on a click on the selected value
ToggleProperty_ClearsAll(prev, propName, valueName) ==
    IF propName \in DOMAIN prev /\ prev[propName] = valueName
    THEN NoSelection
    ELSE [g \in DOMAIN prev \cup {propName} |-> IF g = propName THEN valueName ELSE prev[g]]

\* the updater of handlePropertySelect
ToggleProperty(prev, propName, valueName) ==
    IF propName \in DOMAIN prev /\ prev[propName] = valueName
    THEN [g \in DOMAIN prev \ {propName} |-> prev[g]]
    ELSE [g \in DOMAIN prev \cup {propName} |-> IF g = propName THEN valueName ELSE prev[g]]

\* propertyImageMap.set(key, url)
SetImage(map, key, url) ==
    [k \in DOMAIN map \cup {key} |-> IF k = key THEN url ELSE map[k]]

\* the forEach body over property_image_list, with the first pair of an
\* entry of several pairs set like the pair of a single one
AddImageEntry_AlwaysSet(map, item) ==
    IF Len(item.properties) = 0 \/ item.image_url = "" THEN map
    ELSE IF item.properties[1] # "" THEN SetImage(map, item.properties[1], item.image_url)
    ELSE map

\* the forEach body over property_image_list
AddImageEntry(map, item) ==
    IF Len(item.properties) = 0 \/ item.image_url = "" THEN map
    ELSE IF Len(item.properties) = 1
    THEN LET key == item.properties[1]
         IN  IF key # "" THEN SetImage(map, key, item.image_url) ELSE map
    ELSE LET firstPair == item.properties[1]
         IN  IF firstPair # "" /\ firstPair \notin DOMAIN map
             THEN SetImage(map, firstPair, item.image_url)
             ELSE map

\* propertyImageMap after product.property_image_list?.forEach(...)
RECURSIVE BuildPropertyImageMap(_, _)
BuildPropertyImageMap(map, list) ==
    IF list = <<>> THEN map
    ELSE BuildPropertyImageMap(AddImageEntry(map, Head(list)), Tail(list))

\* the position of the group of a property name in the Map of groups, 0
\* when groups.has(prop.prop_name) is false
GroupIndex(groups, propName) ==
    IF \E j \in 1..Len(groups) : groups[j].propName = propName
    THEN CHOOSE j \in 1..Len(groups) : groups[j].propName = propName
    ELSE 0

\* group.options.has(valueName)
HasOption(options, valueName) == \E k \in 1..Len(options) : options[k] = valueName

\* the forEach body over displayProperties, adding an Option without
\* looking for the value among the Options of the group
AddProp_NoOptionCheck(groups, prop) ==
    LET withGroup ==
            IF GroupIndex(groups, prop.prop_name) = 0
            THEN Append(groups, [propName |-> prop.prop_name, options |-> <<>>])
            ELSE groups
        j == GroupIndex(withGroup, prop.prop_name)
    IN  [withGroup EXCEPT ![j].options = Append(@, prop.value_name)]

\* the forEach body over displayProperties: the group of the property name
\* is created when the Map has none, the Option when the group has none
AddProp(groups, prop) ==
    LET withGroup ==
            IF GroupIndex(groups, prop.prop_name) = 0
            THEN Append(groups, [propName |-> prop.prop_name, options |-> <<>>])
            ELSE groups
        j == GroupIndex(withGroup, prop.prop_name)
    IN  IF HasOption(withGroup[j].options, prop.value_name)
        THEN withGroup
        ELSE [withGroup EXCEPT ![j].options = Append(@, prop.value_name)]

\* displayProperties?.forEach(...)
RECURSIVE AddProps(_, _)
AddProps(groups, props) ==
    IF props = <<>> THEN groups
    ELSE AddProps(AddProp(groups, Head(props)), Tail(props))

\* product.sku_list.forEach(...): the Map of groups, in insertion order
RECURSIVE ExtractGroups(_, _)
ExtractGroups(groups, skuList) ==
    IF skuList = <<>> THEN groups
    ELSE ExtractGroups(AddProps(groups, Head(skuList).properties), Tail(skuList))

\* a sort that leaves the groups in the order of the Map
InsertByOptions_Append(sorted, group) == Append(sorted, group)

\* one group put into a list sorted by a.options.length - b.options.length,
\* behind the groups that have as many Options (the sort is stable)
RECURSIVE InsertByOptions(_, _)
InsertByOptions(sorted, group) ==
    IF sorted = <<>> THEN <<group>>
    ELSE IF Len(Head(sorted).options) <= Len(group.options)
    THEN <<Head(sorted)>> \o InsertByOptions(Tail(sorted), group)
    ELSE <<group>> \o sorted

RECURSIVE SortByOptions(_, _)
SortByOptions(sorted, groups) ==
    IF groups = <<>> THEN sorted
    ELSE SortByOptions(InsertByOptions(sorted, Head(groups)), Tail(groups))

\* propertyGroupsArray
propertyGroupsArray(skuList) == SortByOptions(<<>>, ExtractGroups(<<>>, skuList))

\* an auto-select that takes the first SKU whatever its stock
firstAvailableSku_IgnoresStock(skuList) == 1

\* product.sku_list.find(sku => sku.quantity > 0): its position, 0 when
\* there is none
firstAvailableSku(skuList) ==
    IF \E i \in 1..Len(skuList) : skuList[i].quantity > 0
    THEN CHOOSE i \in 1..Len(skuList) :
            /\ skuList[i].quantity > 0
            /\ \A j \in 1..(i - 1) : skuList[j].quantity = 0
    ELSE 0

\* product.sku_list.find(sku => displayProperties?.every(...)): its
\* position, 0 when there is none
matchingSku(skuList, selection) ==
    IF \E i \in 1..Len(skuList) : EveryPropSelected(skuList[i], selection)
    THEN CHOOSE i \in 1..Len(skuList) :
            /\ EveryPropSelected(skuList[i], selection)
            /\ \A j \in 1..(i - 1) : ~EveryPropSelected(skuList[j], selection)
    ELSE 0

\* the effect "Auto-select SKU if only one exists OR if no properties
\* exist": the selectedSku it leaves, given the one it found
AutoSelectSku(prod, hasProps, current) ==
    IF ~prod.loaded \/ Len(prod.sku_list) = 0 THEN current
    ELSE IF Len(prod.sku_list) = 1 THEN 1
    ELSE IF ~hasProps
    THEN IF firstAvailableSku(prod.sku_list) # 0 THEN firstAvailableSku(prod.sku_list) ELSE 1
    ELSE current

\* the effect "Auto-match SKU when properties are selected": the
\* selectedSku it leaves, given the one it found
AutoMatchSku(prod, hasProps, selection, groupsLength, current) ==
    IF ~hasProps THEN current
    ELSE IF ~prod.loaded \/ DOMAIN selection = {} THEN 0
    ELSE IF Cardinality(DOMAIN selection) # groupsLength THEN 0
    ELSE matchingSku(prod.sku_list, selection)

(***************************************************************************)
(* taobaoCartController: the in-memory cart store.                         *)
(***************************************************************************)
Customers == {"c1", "c2"}
ItemIds == {"i1", "i2"}

ErrNotFound == "Item not found in cart"

\* no call of the controller has returned yet
NoCall == [op |-> "none", thrown |-> NoError]

\* the ids generateLineItemId hands out, as the numbers whose decimal
\* strings they are, and one id that no line has yet
LineItemIds == 1..(MaxLineItems + 1)

CartItem(id, itemId, skuId, quantity) ==
    [id |-> id, itemId |-> itemId, skuId |-> skuId, quantity |-> quantity]

\* cartStore[customerNumber] || []
CartOf(store, customerNumber) ==
    IF customerNumber \in DOMAIN store THEN store[customerNumber] ELSE <<>>

RECURSIVE SumQuantity(_)
SumQuantity(cart) ==
    IF cart = <<>> THEN 0 ELSE Head(cart).quantity + SumQuantity(Tail(cart))

\* getCart
getCart(store, customerNumber) ==
    [items |-> CartOf(store, customerNumber),
     totalQuantity |-> SumQuantity(CartOf(store, customerNumber))]

\* cart.find(item => item.itemId === data.itemId && item.skuId ===
\* data.skuId): its position, 0 when there is none
FindExisting(cart, itemId, skuId) ==
    IF \E i \in 1..Len(cart) : cart[i].itemId = itemId /\ cart[i].skuId = skuId
    THEN CHOOSE i \in 1..Len(cart) :
            /\ cart[i].itemId = itemId /\ cart[i].skuId = skuId
            /\ \A j \in 1..(i - 1) : ~(cart[j].itemId = itemId /\ cart[j].skuId = skuId)
    ELSE 0

\* a lookup that takes the first line of the cart whatever its id
FindById_First(cart, lineItemId) == IF cart = <<>> THEN 0 ELSE 1

\* cart.find(i => i.id === lineItemId): its position, 0 when there is none
FindById(cart, lineItemId) ==
    IF \E i \in 1..Len(cart) : cart[i].id = lineItemId
    THEN CHOOSE i \in 1..Len(cart) :
            /\ cart[i].id = lineItemId
            /\ \A j \in 1..(i - 1) : cart[j].id # lineItemId
    ELSE 0

\* an increment without the minimum
NewQuantity_NoMinimum(quantity, delta) == quantity + delta

\* the quantity incrementLineItemQuantity stores
NewQuantity(quantity, delta) ==
    IF quantity + delta <= 0 THEN Max(1, quantity + delta) ELSE quantity + delta

(***************************************************************************)
(* State.                                                                  *)
(***************************************************************************)
VARIABLES
    \* CartDialog
    isOpen,               \* the isOpen prop (the parent's isCartOpen)
    items,                \* the displayed cart: skuId -> quantity
    loading,
    error,
    updatingSkuIds,
    selectedSkuIds,
    isCheckoutLoading,
    orderSummaryData,
    showOrderSummary,
    lastRenderedSkuIds,
    isCreatingOrder,
    \* OrderSummaryDialog (state of the mounted instance)
    adjustedQuantities,   \* skuId -> adjusted quantity
    isRecalculating,
    \* the cart service: skuId -> quantity
    serverCart,
    \* calls in flight
    fetches,              \* number of GET /cart calls
    updates,              \* skuId -> the updateQuantity call awaiting its PATCH
    renderReqs,           \* sequence of render-order calls
    patching,             \* sequence of handleReCalculate calls awaiting a PATCH
    orderReq,             \* the order call
    removing,             \* sequence of handleRemoveUnavailable calls awaiting a DELETE
    removals,             \* skuId -> number of removeItem calls awaiting their DELETE
    \* the line handed to the bucket filters, and the buckets that took it
    line,
    buckets,
    \* user actions that started a call so far
    calls,
    \* ProductDetailPage
    product,
    selectedSku,          \* 0 (null) or the position of the SKU in product.sku_list
    selectedProperties,   \* prop_name -> value_name
    propertyGroups,
    hasSkuProperties,
    propertyImageMap,     \* the propertyImageMap of the last group extraction
    effectDeps,           \* the dependencies the effects last ran with
    \* taobaoCartController
    cartStore,            \* customerNumber -> CartItem[]
    nextLineItemId,
    storeResult           \* the last call of the controller and how it ended

vars ==
    <<isOpen, items, loading, error, updatingSkuIds, selectedSkuIds, isCheckoutLoading,
      orderSummaryData, showOrderSummary, lastRenderedSkuIds, isCreatingOrder,
      adjustedQuantities, isRecalculating, serverCart, fetches, updates, renderReqs,
      patching, orderReq, removing, line, buckets, calls, product, selectedSku,
      selectedProperties, propertyGroups, hasSkuProperties, propertyImageMap, effectDeps,
      removals, cartStore, nextLineItemId, storeResult>>

\* the state of the cart store
storeVars == <<cartStore, nextLineItemId, storeResult>>

\* the state of the product page
pageVars ==
    <<product, selectedSku, selectedProperties, propertyGroups, hasSkuProperties,
      propertyImageMap, effectDeps>>

cartVars == <<items, loading, error, updatingSkuIds, serverCart, fetches, updates>>

\* what the checkout workflow leaves alone
classifyVars == <<line, buckets>>

NoOrder == [active |-> FALSE, sku_ids |-> {}]

\* the filters have not run on the line yet
NotCategorized == {"pending"}

NoLine == [is_available |-> TRUE, available_quantity |-> UndefinedQty, quantity |-> 1]

\* {showOrderSummary && orderSummaryData && <OrderSummaryDialog .../>}, below
\* the "if (!isOpen) return null" of CartDialog
Visible == isOpen /\ showOrderSummary /\ orderSummaryData.present

\* the cart dialog is on screen and not covered by the summary dialog
CartActive == isOpen /\ ~Visible

\* what no handler of the product page touches
checkoutVars ==
    <<isOpen, cartVars, selectedSkuIds, isCheckoutLoading, orderSummaryData,
      showOrderSummary, lastRenderedSkuIds, isCreatingOrder, adjustedQuantities,
      isRecalculating, renderReqs, patching, orderReq, removing, removals, classifyVars,
      calls>>

\* the dependency arrays of the three effects on the SKUs, as of this render
Deps ==
    [product |-> product,
     hasSkuProperties |-> hasSkuProperties,
     selectedProperties |-> selectedProperties,
     groupsLength |-> Len(propertyGroups)]

\* every effect has run with the dependencies of this render
Settled == effectDeps = Deps

\* the product page after its first render and effects, the product not
\* loaded yet
InitProductPage ==
    /\ product = NoProduct
    /\ selectedSku = 0
    /\ selectedProperties = NoSelection
    /\ propertyGroups = <<>>
    /\ hasSkuProperties = TRUE
    /\ propertyImageMap = NoSelection
    /\ effectDeps = Deps

\* const cartStore = {}; let nextLineItemId = 1
InitStore ==
    /\ cartStore = [c \in {} |-> <<>>]
    /\ nextLineItemId = 1
    /\ storeResult = NoCall

\* the client state right after construction, over a given cart on the server
InitClient ==
    /\ isOpen = FALSE
    /\ items = Empty
    /\ loading = FALSE
    /\ error = NoError
    /\ updatingSkuIds = {}
    /\ selectedSkuIds = {}
    /\ isCheckoutLoading = FALSE
    /\ orderSummaryData = NoData
    /\ showOrderSummary = FALSE
    /\ lastRenderedSkuIds = {}
    /\ isCreatingOrder = FALSE
    /\ adjustedQuantities = Empty
    /\ isRecalculating = FALSE
    /\ fetches = 0
    /\ updates = Empty
    /\ renderReqs = <<>>
    /\ patching = <<>>
    /\ orderReq = NoOrder
    /\ removing = <<>>
    /\ removals = [s \in Skus |-> 0]
    /\ InitProductPage
    /\ InitStore

Init ==
    /\ InitClient
    /\ serverCart = [s \in Skus |-> MaxQty]
    /\ line = NoLine
    /\ buckets = NotCategorized
    /\ calls = 0

(***************************************************************************)
(* Helpers on the calls in flight.                                         *)
(***************************************************************************)
RemoveAt(seq, i) == [j \in 1..(Len(seq) - 1) |-> IF j < i THEN seq[j] ELSE seq[j + 1]]

\* the OrderSummaryDialog instance is unmounted: the setters of its pending
\* calls no longer reach any state
Detach(seq) == [j \in 1..Len(seq) |-> [seq[j] EXCEPT !.mounted = FALSE]]

Restrict(f, S) == [s \in S |-> f[s]]

\* the first entry of Object.entries(adjustedQuantities) still to be PATCHed
FirstPatch(patches) == CHOOSE s \in DOMAIN patches : TRUE

(***************************************************************************)
(* The services.                                                           *)
(***************************************************************************)
\* PATCH /cart { skuId, quantity }
ServerSetQuantity(cart, skuId, quantity) ==
    IF skuId \in DOMAIN cart THEN [cart EXCEPT ![skuId] = quantity] ELSE cart

\* POST /order: the ordered lines leave the customer's cart
ServerCreateOrder(cart, skuIds) == Restrict(cart, DOMAIN cart \ skuIds)

\* POST /render-order: one line per requested SKU, for the quantity the cart
\* holds, with any verdict; available_quantity is left out of a line that is
\* available (no code reads it there)
RenderVerdicts ==
    {[is_available |-> TRUE, available_quantity |-> UndefinedQty]} \cup
    {[is_available |-> FALSE, available_quantity |-> q] :
        q \in {NullQty} \cup {NumQty(k) : k \in 0..MaxAvail}}

RenderResults(cart, skuIds) ==
    {[s \in skuIds |->
        [is_available |-> v[s].is_available,
         available_quantity |-> v[s].available_quantity,
         quantity |-> cart[s]]] : v \in [skuIds -> RenderVerdicts]}

(***************************************************************************)
(* CartDialog: opening, loading and selecting.                             *)
(***************************************************************************)
\* the parent's setIsCartOpen(true); the effect on isOpen calls fetchCart()
OpenCart ==
    /\ calls < MaxCalls
    /\ calls' = calls + 1
    /\ ~isOpen
    /\ fetches < MaxFetch
    /\ isOpen' = TRUE
    /\ loading' = TRUE
    /\ error' = NoError
    /\ fetches' = fetches + 1
    /\ UNCHANGED <<items, updatingSkuIds, selectedSkuIds, isCheckoutLoading,
                   orderSummaryData, showOrderSummary, lastRenderedSkuIds, isCreatingOrder,
                   adjustedQuantities, isRecalculating, serverCart, updates, renderReqs,
                   patching, orderReq, removing, classifyVars, pageVars, removals, storeVars>>

\* the close button of the cart dialog: onClose()
CloseCart ==
    /\ UNCHANGED calls
    /\ CartActive
    /\ isOpen' = FALSE
    /\ UNCHANGED <<cartVars, selectedSkuIds, isCheckoutLoading, orderSummaryData,
                   showOrderSummary, lastRenderedSkuIds, isCreatingOrder,
                   adjustedQuantities, isRecalculating, renderReqs, patching, orderReq,
                   removing, classifyVars, pageVars, removals, storeVars>>

\* fetchCart: data.success, setItems(data.data.lineItems)
FetchCartOk ==
    /\ UNCHANGED calls
    /\ fetches > 0
    /\ fetches' = fetches - 1
    /\ items' = serverCart
    /\ loading' = FALSE
    /\ UNCHANGED <<isOpen, error, updatingSkuIds, selectedSkuIds, isCheckoutLoading,
                   orderSummaryData, showOrderSummary, lastRenderedSkuIds, isCreatingOrder,
                   adjustedQuantities, isRecalculating, serverCart, updates, renderReqs,
                   patching, orderReq, removing, classifyVars, pageVars, removals, storeVars>>

\* fetchCart: !data.success, or the fetch throws
FetchCartFail ==
    /\ UNCHANGED calls
    /\ fetches > 0
    /\ fetches' = fetches - 1
    /\ error' = ErrLoad
    /\ loading' = FALSE
    /\ UNCHANGED <<isOpen, items, updatingSkuIds, selectedSkuIds, isCheckoutLoading,
                   orderSummaryData, showOrderSummary, lastRenderedSkuIds, isCreatingOrder,
                   adjustedQuantities, isRecalculating, serverCart, updates, renderReqs,
                   patching, orderReq, removing, classifyVars, pageVars, removals, storeVars>>

\* the checkbox of a cart line (the lines are not rendered while loading)
handleSkuToggle(skuId) ==
    /\ UNCHANGED calls
    /\ CartActive
    /\ ~loading
    /\ skuId \in DOMAIN items
    /\ selectedSkuIds' =
          IF skuId \in selectedSkuIds
          THEN selectedSkuIds \ {skuId}
          ELSE selectedSkuIds \cup {skuId}
    /\ UNCHANGED <<isOpen, cartVars, isCheckoutLoading, orderSummaryData, showOrderSummary,
                   lastRenderedSkuIds, isCreatingOrder, adjustedQuantities, isRecalculating,
                   renderReqs, patching, orderReq, removing, classifyVars, pageVars, removals, storeVars>>

\* the header checkbox when selectedSkuIds.size !== items.length
handleSelectAll ==
    /\ UNCHANGED calls
    /\ CartActive
    /\ Cardinality(selectedSkuIds) # Cardinality(DOMAIN items)
    /\ selectedSkuIds' = DOMAIN items
    /\ UNCHANGED <<isOpen, cartVars, isCheckoutLoading, orderSummaryData, showOrderSummary,
                   lastRenderedSkuIds, isCreatingOrder, adjustedQuantities, isRecalculating,
                   renderReqs, patching, orderReq, removing, classifyVars, pageVars, removals, storeVars>>

\* the header checkbox when selectedSkuIds.size === items.length
handleDeselectAll ==
    /\ UNCHANGED calls
    /\ CartActive
    /\ Cardinality(selectedSkuIds) = Cardinality(DOMAIN items)
    /\ selectedSkuIds # {}
    /\ selectedSkuIds' = {}
    /\ UNCHANGED <<isOpen, cartVars, isCheckoutLoading, orderSummaryData, showOrderSummary,
                   lastRenderedSkuIds, isCreatingOrder, adjustedQuantities, isRecalculating,
                   renderReqs, patching, orderReq, removing, classifyVars, pageVars, removals, storeVars>>

(***************************************************************************)
(* Validation: handleProceedToCheckout, handleReCalculate and              *)
(* handleReCalculateOrder.                                                 *)
(***************************************************************************)
\* a render-order call: what it asks for, whether the dialog instance that
\* awaits it (a re-validation) is still mounted, and the SKU list to commit
\* that the handler found when it started
RenderReq(kind, skuIds, mounted) ==
    [kind |-> kind, sku_ids |-> skuIds, mounted |-> mounted,
     prevList |-> lastRenderedSkuIds]

\* the Proceed to Checkout button, up to the await of the fetch
handleProceedToCheckout ==
    /\ calls < MaxCalls
    /\ calls' = calls + 1
    /\ CartActive
    /\ selectedSkuIds # {}
    /\ ~isCheckoutLoading
    /\ Len(renderReqs) < MaxRender
    /\ isCheckoutLoading' = TRUE
    /\ error' = NoError
    /\ lastRenderedSkuIds' = selectedSkuIds
    /\ renderReqs' = Append(renderReqs, RenderReq("first", selectedSkuIds, FALSE))
    /\ UNCHANGED <<isOpen, items, loading, updatingSkuIds, selectedSkuIds, orderSummaryData,
                   showOrderSummary, isCreatingOrder, adjustedQuantities, isRecalculating,
                   serverCart, fetches, updates, patching, orderReq, removing, classifyVars, pageVars, removals, storeVars>>

\* handleReCalculateOrder(skuIds), up to the await of the fetch
handleReCalculateOrder(skuIds, mounted) ==
    /\ Len(renderReqs) < MaxRender
    /\ isCheckoutLoading' = TRUE
    /\ error' = NoError
    /\ lastRenderedSkuIds' = skuIds
    /\ renderReqs' = Append(renderReqs, RenderReq("recalc", skuIds, mounted))

\* the Re-Calculate Order button, up to its first await: the first PATCH of
\* an adjusted line or, when no line is PATCHed, the render-order call
handleReCalculate ==
    /\ calls < MaxCalls
    /\ calls' = calls + 1
    /\ Visible
    /\ hasAdjustments(adjustedQuantities)
    /\ ~isRecalculating
    /\ isRecalculating' = TRUE
    /\ LET patches == PatchesOf(adjustedQuantities)
           skuIds == skuIdsToValidate(orderSummaryData.line_items, adjustedQuantities)
       IN  IF DOMAIN patches = {}
           THEN /\ handleReCalculateOrder(skuIds, TRUE)
                /\ UNCHANGED patching
           ELSE /\ Len(patching) < MaxPatching
                /\ patching' = Append(patching,
                      [patches |-> patches, sku_ids |-> skuIds, mounted |-> TRUE])
                /\ UNCHANGED <<isCheckoutLoading, error, lastRenderedSkuIds, renderReqs>>
    /\ UNCHANGED <<isOpen, items, loading, updatingSkuIds, selectedSkuIds, orderSummaryData,
                   showOrderSummary, isCreatingOrder, adjustedQuantities, serverCart,
                   fetches, updates, orderReq, removing, classifyVars, pageVars, removals, storeVars>>

\* handleReCalculate after a PATCH resolved: the next PATCH, or the
\* render-order call when none is left
AfterPatch(i) ==
    LET call == patching[i]
        rest == Restrict(call.patches, DOMAIN call.patches \ {FirstPatch(call.patches)})
    IN  IF DOMAIN rest = {}
        THEN /\ handleReCalculateOrder(call.sku_ids, call.mounted)
             /\ patching' = RemoveAt(patching, i)
        ELSE /\ patching' = [patching EXCEPT ![i].patches = rest]
             /\ UNCHANGED <<isCheckoutLoading, error, lastRenderedSkuIds, renderReqs>>

\* the cart service applied the PATCH of an adjusted line
PatchApplied(i) ==
    /\ UNCHANGED calls
    /\ i \in 1..Len(patching)
    /\ LET skuId == FirstPatch(patching[i].patches)
       IN  serverCart' = ServerSetQuantity(serverCart, skuId, patching[i].patches[skuId])
    /\ AfterPatch(i)
    /\ UNCHANGED <<isOpen, items, loading, updatingSkuIds, selectedSkuIds, orderSummaryData,
                   showOrderSummary, isCreatingOrder, adjustedQuantities, isRecalculating,
                   fetches, updates, orderReq, removing, classifyVars, pageVars, removals, storeVars>>

\* the cart service refused the PATCH: the fetch resolves and the response
\* is not looked at
PatchRejected(i) ==
    /\ UNCHANGED calls
    /\ i \in 1..Len(patching)
    /\ AfterPatch(i)
    /\ UNCHANGED <<isOpen, items, loading, updatingSkuIds, selectedSkuIds, orderSummaryData,
                   showOrderSummary, isCreatingOrder, adjustedQuantities, isRecalculating,
                   serverCart, fetches, updates, orderReq, removing, classifyVars, pageVars, removals, storeVars>>

\* the PATCH throws: catch, then finally setIsRecalculating(false)
PatchThrows(i) ==
    /\ UNCHANGED calls
    /\ i \in 1..Len(patching)
    /\ patching' = RemoveAt(patching, i)
    /\ isRecalculating' = IF patching[i].mounted THEN FALSE ELSE isRecalculating
    /\ UNCHANGED <<isOpen, cartVars, selectedSkuIds, isCheckoutLoading, orderSummaryData,
                   showOrderSummary, lastRenderedSkuIds, isCreatingOrder,
                   adjustedQuantities, renderReqs, orderReq, removing, classifyVars, pageVars, removals, storeVars>>

\* what handleReCalculate does once onReCalculate has returned:
\* setAdjustedQuantities({}) and, in finally, setIsRecalculating(false)
AfterReCalculate(req) ==
    IF req.kind = "recalc" /\ req.mounted
    THEN adjustedQuantities' = Empty /\ isRecalculating' = FALSE
    ELSE UNCHANGED <<adjustedQuantities, isRecalculating>>

\* render-order answers response.ok; it does so for a non-empty list of SKUs
\* of the customer's cart
RenderOrderOk(i) ==
    /\ UNCHANGED calls
    /\ i \in 1..Len(renderReqs)
    /\ renderReqs[i].sku_ids # {}
    /\ renderReqs[i].sku_ids \subseteq DOMAIN serverCart
    /\ renderReqs' = RemoveAt(renderReqs, i)
    /\ \E lines \in RenderResults(serverCart, renderReqs[i].sku_ids) :
          orderSummaryData' = Data(lines)
    /\ showOrderSummary' = IF renderReqs[i].kind = "first" THEN TRUE ELSE showOrderSummary
    /\ isCheckoutLoading' = FALSE
    /\ AfterReCalculate(renderReqs[i])
    /\ UNCHANGED <<isOpen, cartVars, selectedSkuIds, lastRenderedSkuIds, isCreatingOrder,
                   patching, orderReq, removing, classifyVars, pageVars, removals, storeVars>>

\* a failure branch that sends the request again
RenderOrderFail_Retries(i) ==
    /\ UNCHANGED calls
    /\ i \in 1..Len(renderReqs)
    /\ renderReqs' = renderReqs
    /\ error' = IF renderReqs[i].kind = "first" THEN ErrValidate ELSE ErrReCalculate
    /\ isCheckoutLoading' = FALSE
    /\ AfterReCalculate(renderReqs[i])
    /\ UNCHANGED <<isOpen, items, loading, updatingSkuIds, selectedSkuIds, orderSummaryData,
                   showOrderSummary, lastRenderedSkuIds, isCreatingOrder, serverCart,
                   fetches, updates, patching, orderReq, removing, classifyVars, pageVars,
                   removals, storeVars>>

\* render-order answers !response.ok, or the fetch throws
RenderOrderFail(i) ==
    /\ UNCHANGED calls
    /\ i \in 1..Len(renderReqs)
    /\ renderReqs' = RemoveAt(renderReqs, i)
    /\ error' = IF renderReqs[i].kind = "first" THEN ErrValidate ELSE ErrReCalculate
    /\ isCheckoutLoading' = FALSE
    /\ AfterReCalculate(renderReqs[i])
    /\ UNCHANGED <<isOpen, items, loading, updatingSkuIds, selectedSkuIds, orderSummaryData,
                   showOrderSummary, lastRenderedSkuIds, isCreatingOrder, serverCart,
                   fetches, updates, patching, orderReq, removing, classifyVars, pageVars, removals, storeVars>>

(***************************************************************************)
(* OrderSummaryDialog: adjusting, closing, and the order.                  *)
(***************************************************************************)
\* the number typed into "Adjust to" of an insufficient line
AdjustInputs == (0 - 1)..(MaxAvail + 1)

\* the "Adjust to" input of an insufficient line
handleQuantityAdjust(skuId, newQuantity) ==
    /\ UNCHANGED calls
    /\ Visible
    /\ skuId \in insufficientStockItems(orderSummaryData.line_items)
    /\ LET maxQuantity == orderSummaryData.line_items[skuId].available_quantity.n
           validQuantity == ClampQuantity(newQuantity, maxQuantity)
       IN  adjustedQuantities' =
              [s \in DOMAIN adjustedQuantities \cup {skuId} |->
                  IF s = skuId THEN validQuantity ELSE adjustedQuantities[s]]
    /\ UNCHANGED <<isOpen, cartVars, selectedSkuIds, isCheckoutLoading, orderSummaryData,
                   showOrderSummary, lastRenderedSkuIds, isCreatingOrder, isRecalculating,
                   renderReqs, patching, orderReq, removing, classifyVars, pageVars, removals, storeVars>>

\* the Use Max button of an insufficient line
handleQuickAdjust(skuId) ==
    /\ UNCHANGED calls
    /\ Visible
    /\ skuId \in insufficientStockItems(orderSummaryData.line_items)
    /\ LET maxQuantity == orderSummaryData.line_items[skuId].available_quantity.n
       IN  adjustedQuantities' =
              [s \in DOMAIN adjustedQuantities \cup {skuId} |->
                  IF s = skuId THEN maxQuantity ELSE adjustedQuantities[s]]
    /\ UNCHANGED <<isOpen, cartVars, selectedSkuIds, isCheckoutLoading, orderSummaryData,
                   showOrderSummary, lastRenderedSkuIds, isCreatingOrder, isRecalculating,
                   renderReqs, patching, orderReq, removing, classifyVars, pageVars, removals, storeVars>>

\* Back to Cart, the backdrop, the swipe: setShowOrderSummary(false), which
\* unmounts the OrderSummaryDialog instance
CloseSummary ==
    /\ UNCHANGED calls
    /\ Visible
    /\ showOrderSummary' = FALSE
    /\ adjustedQuantities' = Empty
    /\ isRecalculating' = FALSE
    /\ renderReqs' = Detach(renderReqs)
    /\ patching' = Detach(patching)
    /\ UNCHANGED <<isOpen, cartVars, selectedSkuIds, isCheckoutLoading, orderSummaryData,
                   lastRenderedSkuIds, isCreatingOrder, orderReq, removing, classifyVars, pageVars, removals, storeVars>>

\* the Create Order button, up to the await of the fetch (or the early
\* return when there is nothing to order)
handleCreateOrder ==
    /\ calls < MaxCalls
    /\ calls' = calls + 1
    /\ Visible
    /\ CreateOrderShown(orderSummaryData.line_items, adjustedQuantities)
    /\ ~isCreatingOrder
    /\ LET skuIds == skuIdsToOrder(lastRenderedSkuIds, selectedSkuIds)
       IN  IF skuIds = {}
           THEN /\ error' = ErrNoItems
                /\ UNCHANGED <<isCreatingOrder, orderReq>>
           ELSE /\ error' = NoError
                /\ isCreatingOrder' = TRUE
                /\ orderReq' = [active |-> TRUE, sku_ids |-> skuIds]
    /\ UNCHANGED <<isOpen, items, loading, updatingSkuIds, selectedSkuIds,
                   isCheckoutLoading, orderSummaryData, showOrderSummary,
                   lastRenderedSkuIds, adjustedQuantities, isRecalculating, serverCart,
                   fetches, updates, renderReqs, patching, removing, classifyVars, pageVars, removals, storeVars>>

\* the order service created the order: setShowOrderSummary(false),
\* fetchCart(), onClose(), and in finally setIsCreatingOrder(false)
OrderOk ==
    /\ UNCHANGED calls
    /\ orderReq.active
    /\ fetches < MaxFetch
    /\ orderReq' = NoOrder
    /\ serverCart' = ServerCreateOrder(serverCart, orderReq.sku_ids)
    /\ showOrderSummary' = FALSE
    /\ loading' = TRUE
    /\ error' = NoError
    /\ fetches' = fetches + 1
    /\ isOpen' = FALSE
    /\ isCreatingOrder' = FALSE
    /\ adjustedQuantities' = Empty
    /\ isRecalculating' = FALSE
    /\ renderReqs' = Detach(renderReqs)
    /\ patching' = Detach(patching)
    /\ UNCHANGED <<items, updatingSkuIds, selectedSkuIds, isCheckoutLoading,
                   orderSummaryData, lastRenderedSkuIds, updates, removing, classifyVars, pageVars, removals, storeVars>>

\* a failure branch that also closes the summary dialog
OrderFail_ClosesSummary ==
    /\ UNCHANGED calls
    /\ orderReq.active
    /\ orderReq' = NoOrder
    /\ error' = ErrOrder
    /\ isCreatingOrder' = FALSE
    /\ showOrderSummary' = FALSE
    /\ UNCHANGED <<isOpen, items, loading, updatingSkuIds, selectedSkuIds,
                   isCheckoutLoading, orderSummaryData, lastRenderedSkuIds,
                   adjustedQuantities, isRecalculating, serverCart, fetches, updates,
                   renderReqs, patching, removing, classifyVars, pageVars, removals, storeVars>>

\* !response.ok, data.success === false, or the fetch throws
OrderFail ==
    /\ UNCHANGED calls
    /\ orderReq.active
    /\ orderReq' = NoOrder
    /\ error' = ErrOrder
    /\ isCreatingOrder' = FALSE
    /\ UNCHANGED <<isOpen, items, loading, updatingSkuIds, selectedSkuIds,
                   isCheckoutLoading, orderSummaryData, showOrderSummary,
                   lastRenderedSkuIds, adjustedQuantities, isRecalculating, serverCart,
                   fetches, updates, renderReqs, patching, removing, classifyVars, pageVars, removals, storeVars>>

(***************************************************************************)
(* CartDialog: handleRemoveUnavailable.                                    *)
(***************************************************************************)
\* the next entry of unavailableSkuIds still to be DELETEd
FirstOf(skuIds) == CHOOSE s \in skuIds : TRUE

\* DELETE /cart { skuId }
ServerRemove(cart, skuId) == Restrict(cart, DOMAIN cart \ {skuId})

\* unavailableSkuIds of handleRemoveUnavailable: the lines with
\* !is_available and available_quantity null, undefined or 0
unavailableSkuIds(lines) ==
    {s \in DOMAIN lines :
        /\ ~lines[s].is_available
        /\ \/ lines[s].available_quantity.tag = "null"
           \/ lines[s].available_quantity.tag = "undefined"
           \/ lines[s].available_quantity = NumQty(0)}

\* the Remove Unavailable button, up to the await of the first DELETE
handleRemoveUnavailable ==
    /\ calls < MaxCalls
    /\ calls' = calls + 1
    /\ Visible
    /\ unavailableItems(orderSummaryData.line_items) # {}
    /\ Len(removing) < MaxRemoving
    /\ removing' = Append(removing,
          [pending |-> unavailableSkuIds(orderSummaryData.line_items),
           sku_ids |-> unavailableSkuIds(orderSummaryData.line_items)])
    /\ UNCHANGED <<isOpen, cartVars, selectedSkuIds, isCheckoutLoading, orderSummaryData,
                   showOrderSummary, lastRenderedSkuIds, isCreatingOrder,
                   adjustedQuantities, isRecalculating, renderReqs, patching, orderReq,
                   classifyVars, pageVars, removals, storeVars>>

\* handleRemoveUnavailable after a DELETE settled: the next DELETE or, when
\* none is left, setShowOrderSummary(false), fetchCart() and the removal of
\* unavailableSkuIds from the selection
AfterDelete(i) ==
    LET call == removing[i]
        rest == call.pending \ {FirstOf(call.pending)}
    IN  IF rest = {}
        THEN /\ fetches < MaxFetch
             /\ removing' = RemoveAt(removing, i)
             /\ showOrderSummary' = FALSE
             /\ loading' = TRUE
             /\ error' = NoError
             /\ fetches' = fetches + 1
             /\ selectedSkuIds' = selectedSkuIds \ call.sku_ids
             /\ adjustedQuantities' = Empty
             /\ isRecalculating' = FALSE
             /\ renderReqs' = Detach(renderReqs)
             /\ patching' = Detach(patching)
        ELSE /\ removing' = [removing EXCEPT ![i].pending = rest]
             /\ UNCHANGED <<showOrderSummary, loading, error, fetches, selectedSkuIds,
                            adjustedQuantities, isRecalculating, renderReqs, patching>>

\* the cart service removed the line
DeleteApplied(i) ==
    /\ UNCHANGED calls
    /\ i \in 1..Len(removing)
    /\ serverCart' = ServerRemove(serverCart, FirstOf(removing[i].pending))
    /\ AfterDelete(i)
    /\ UNCHANGED <<isOpen, items, updatingSkuIds, isCheckoutLoading, orderSummaryData,
                   lastRenderedSkuIds, isCreatingOrder, updates, orderReq, classifyVars,
                   pageVars, removals, storeVars>>

\* the cart service refused the DELETE (the response is not looked at), or
\* the fetch throws (catch: console.error)
DeleteFailed(i) ==
    /\ UNCHANGED calls
    /\ i \in 1..Len(removing)
    /\ AfterDelete(i)
    /\ UNCHANGED <<isOpen, items, updatingSkuIds, isCheckoutLoading, orderSummaryData,
                   lastRenderedSkuIds, isCreatingOrder, serverCart, updates, orderReq,
                   classifyVars, pageVars, removals, storeVars>>

(***************************************************************************)
(* The checkout workflow.                                                  *)
(***************************************************************************)
Next ==
    \/ OpenCart
    \/ CloseCart
    \/ FetchCartOk
    \/ FetchCartFail
    \/ \E skuId \in Skus : handleSkuToggle(skuId)
    \/ handleSelectAll
    \/ handleDeselectAll
    \/ handleProceedToCheckout
    \/ handleReCalculate
    \/ \E i \in 1..MaxPatching : PatchApplied(i)
    \/ \E i \in 1..MaxPatching : PatchRejected(i)
    \/ \E i \in 1..MaxPatching : PatchThrows(i)
    \/ \E i \in 1..MaxRender : RenderOrderOk(i)
    \/ \E i \in 1..MaxRender : RenderOrderFail(i)
    \/ \E skuId \in Skus, newQuantity \in AdjustInputs :
          handleQuantityAdjust(skuId, newQuantity)
    \/ \E skuId \in Skus : handleQuickAdjust(skuId)
    \/ CloseSummary
    \/ handleCreateOrder
    \/ OrderOk
    \/ OrderFail
    \/ handleRemoveUnavailable
    \/ \E i \in 1..MaxRemoving : DeleteApplied(i)
    \/ \E i \in 1..MaxRemoving : DeleteFailed(i)

Spec == Init /\ [][Next]_vars

(***************************************************************************)
(* CartDialog: the quantity stepper.                                       *)
(***************************************************************************)
\* setItems(prev => prev.map(item => item.skuId === skuId ? {...item, quantity} : item))
OptimisticItems(prev, skuId, newQuantity) ==
    [s \in DOMAIN prev |-> IF s = skuId THEN newQuantity ELSE prev[s]]

\* a failure branch that leaves the displayed cart as it is
RevertedItems_NoRollback(call) == items

\* what the failure branches hand to setItems: previousItems
RevertedItems(call) == call.previousItems

\* the - and + buttons of a cart line, up to the await of the PATCH
updateQuantity(skuId, newQuantity) ==
    /\ calls < MaxCalls
    /\ calls' = calls + 1
    /\ CartActive
    /\ ~loading
    /\ skuId \in DOMAIN items
    /\ skuId \notin updatingSkuIds
    /\ newQuantity \in {items[skuId] - 1, items[skuId] + 1}
    /\ newQuantity > 0
    /\ newQuantity <= MaxQty
    /\ items' = OptimisticItems(items, skuId, newQuantity)
    /\ updatingSkuIds' = updatingSkuIds \cup {skuId}
    /\ updates' = [s \in DOMAIN updates \cup {skuId} |->
                      IF s = skuId
                      THEN [quantity |-> newQuantity, previousItems |-> items]
                      ELSE updates[s]]
    /\ UNCHANGED <<isOpen, loading, error, selectedSkuIds, isCheckoutLoading,
                   orderSummaryData, showOrderSummary, lastRenderedSkuIds, isCreatingOrder,
                   adjustedQuantities, isRecalculating, serverCart, fetches, renderReqs,
                   patching, orderReq, removing, classifyVars, pageVars, removals, storeVars>>

\* finally: the updating mark of the line is removed
UpdateSettled(skuId) ==
    /\ updates' = Restrict(updates, DOMAIN updates \ {skuId})
    /\ updatingSkuIds' = updatingSkuIds \ {skuId}

\* the cart service applied the PATCH: data.success
UpdateOk(skuId) ==
    /\ UNCHANGED calls
    /\ skuId \in DOMAIN updates
    /\ serverCart' = ServerSetQuantity(serverCart, skuId, updates[skuId].quantity)
    /\ UpdateSettled(skuId)
    /\ UNCHANGED <<isOpen, items, loading, error, selectedSkuIds, isCheckoutLoading,
                   orderSummaryData, showOrderSummary, lastRenderedSkuIds, isCreatingOrder,
                   adjustedQuantities, isRecalculating, fetches, renderReqs, patching,
                   orderReq, removing, classifyVars, pageVars, removals, storeVars>>

\* the cart service refused the PATCH: !data.success
UpdateRejected(skuId) ==
    /\ UNCHANGED calls
    /\ skuId \in DOMAIN updates
    /\ items' = RevertedItems(updates[skuId])
    /\ error' = ErrUpdate
    /\ UpdateSettled(skuId)
    /\ UNCHANGED <<isOpen, loading, selectedSkuIds, isCheckoutLoading, orderSummaryData,
                   showOrderSummary, lastRenderedSkuIds, isCreatingOrder,
                   adjustedQuantities, isRecalculating, serverCart, fetches, renderReqs,
                   patching, orderReq, removing, classifyVars, pageVars, removals, storeVars>>

\* the PATCH throws before it reaches the cart service: catch
UpdateThrows(skuId) ==
    /\ UNCHANGED calls
    /\ skuId \in DOMAIN updates
    /\ items' = RevertedItems(updates[skuId])
    /\ error' = ErrUpdate
    /\ UpdateSettled(skuId)
    /\ UNCHANGED <<isOpen, loading, selectedSkuIds, isCheckoutLoading, orderSummaryData,
                   showOrderSummary, lastRenderedSkuIds, isCreatingOrder,
                   adjustedQuantities, isRecalculating, serverCart, fetches, renderReqs,
                   patching, orderReq, removing, classifyVars, pageVars, removals, storeVars>>

\* the remove button of a cart line, confirmed, up to the await of the DELETE
removeItem(skuId) ==
    /\ calls < MaxCalls
    /\ calls' = calls + 1
    /\ CartActive
    /\ ~loading
    /\ skuId \in DOMAIN items
    /\ removals[skuId] < MaxRemovals
    /\ removals' = [removals EXCEPT ![skuId] = @ + 1]
    /\ UNCHANGED <<isOpen, cartVars, selectedSkuIds, isCheckoutLoading, orderSummaryData,
                   showOrderSummary, lastRenderedSkuIds, isCreatingOrder,
                   adjustedQuantities, isRecalculating, renderReqs, patching, orderReq,
                   removing, classifyVars, pageVars, storeVars>>

\* the cart service removed the line: data.success, fetchCart() and the
\* removal of the SKU from the selection
RemoveItemOk(skuId) ==
    /\ UNCHANGED calls
    /\ removals[skuId] > 0
    /\ fetches < MaxFetch
    /\ removals' = [removals EXCEPT ![skuId] = @ - 1]
    /\ serverCart' = ServerRemove(serverCart, skuId)
    /\ loading' = TRUE
    /\ error' = NoError
    /\ fetches' = fetches + 1
    /\ selectedSkuIds' = selectedSkuIds \ {skuId}
    /\ UNCHANGED <<isOpen, items, updatingSkuIds, updates, isCheckoutLoading,
                   orderSummaryData, showOrderSummary, lastRenderedSkuIds, isCreatingOrder,
                   adjustedQuantities, isRecalculating, renderReqs, patching, orderReq,
                   removing, classifyVars, pageVars, storeVars>>

\* the cart service refused the DELETE (!data.success), or the fetch throws
RemoveItemFail(skuId) ==
    /\ UNCHANGED calls
    /\ removals[skuId] > 0
    /\ removals' = [removals EXCEPT ![skuId] = @ - 1]
    /\ error' = ErrRemove
    /\ UNCHANGED <<isOpen, items, loading, updatingSkuIds, serverCart, fetches, updates,
                   selectedSkuIds, isCheckoutLoading, orderSummaryData, showOrderSummary,
                   lastRenderedSkuIds, isCreatingOrder, adjustedQuantities, isRecalculating,
                   renderReqs, patching, orderReq, removing, classifyVars, pageVars, storeVars>>

\* the cart dialog and its quantity stepper
NextCart ==
    \/ OpenCart
    \/ CloseCart
    \/ FetchCartOk
    \/ FetchCartFail
    \/ \E skuId \in Skus, newQuantity \in 0..(MaxQty + 1) : updateQuantity(skuId, newQuantity)
    \/ \E skuId \in Skus : UpdateOk(skuId)
    \/ \E skuId \in Skus : UpdateRejected(skuId)
    \/ \E skuId \in Skus : UpdateThrows(skuId)
    \/ \E skuId \in Skus : removeItem(skuId)
    \/ \E skuId \in Skus : RemoveItemOk(skuId)
    \/ \E skuId \in Skus : RemoveItemFail(skuId)
    \/ \E skuId \in Skus : handleSkuToggle(skuId)
    \/ handleSelectAll
    \/ handleDeselectAll

InitCart ==
    /\ InitClient
    /\ serverCart \in [Skus -> 1..MaxQty]
    /\ line = NoLine
    /\ buckets = NotCategorized
    /\ calls = 0

SpecCart == InitCart /\ [][NextCart]_vars

(***************************************************************************)
(* CartDialog as a whole, over a cart of one line.                         *)
(***************************************************************************)
NextDialog ==
    \/ Next
    \/ NextCart

InitSingleLine ==
    /\ InitClient
    /\ serverCart \in {[s \in {"A"} |-> q] : q \in 1..MaxQty}
    /\ line = NoLine
    /\ buckets = NotCategorized
    /\ calls = 0

SpecDialog == InitSingleLine /\ [][NextDialog]_vars

(***************************************************************************)
(* taobaoCartController: its operations on cartStore.                      *)
(***************************************************************************)
storeGetCart(customerNumber) ==
    /\ storeResult' = [op |-> "getCart", customerNumber |-> customerNumber,
                       thrown |-> NoError,
                       returned |-> getCart(cartStore, customerNumber)]
    /\ UNCHANGED <<cartStore, nextLineItemId, checkoutVars, pageVars>>

addToCart(customerNumber, itemId, skuId, quantity) ==
    LET cart == CartOf(cartStore, customerNumber)
        existingItem == FindExisting(cart, itemId, skuId)
        newCart ==
            IF existingItem # 0
            THEN [cart EXCEPT ![existingItem].quantity = @ + quantity]
            ELSE Append(cart, CartItem(nextLineItemId, itemId, skuId, quantity))
        store == [c \in DOMAIN cartStore \cup {customerNumber} |->
                     IF c = customerNumber THEN newCart ELSE cartStore[c]]
    IN  /\ IF existingItem # 0
           THEN cart[existingItem].quantity + quantity <= MaxStoreQty
           ELSE nextLineItemId <= MaxLineItems
        /\ cartStore' = store
        /\ nextLineItemId' = IF existingItem # 0 THEN nextLineItemId ELSE nextLineItemId + 1
        /\ storeResult' = [op |-> "addToCart", customerNumber |-> customerNumber,
                           itemId |-> itemId, skuId |-> skuId, quantity |-> quantity,
                           thrown |-> NoError, returned |-> getCart(store, customerNumber)]
        /\ UNCHANGED <<checkoutVars, pageVars>>

updateLineItemQuantity(customerNumber, lineItemId, quantity) ==
    LET cart == CartOf(cartStore, customerNumber)
        item == FindById(cart, lineItemId)
        store == [cartStore EXCEPT ![customerNumber][item].quantity = quantity]
    IN  /\ IF item = 0
           THEN /\ storeResult' = [op |-> "updateLineItemQuantity",
                                   customerNumber |-> customerNumber,
                                   lineItemId |-> lineItemId, quantity |-> quantity,
                                   thrown |-> ErrNotFound]
                /\ UNCHANGED cartStore
           ELSE /\ cartStore' = store
                /\ storeResult' = [op |-> "updateLineItemQuantity",
                                   customerNumber |-> customerNumber,
                                   lineItemId |-> lineItemId, quantity |-> quantity,
                                   thrown |-> NoError,
                                   returned |-> getCart(store, customerNumber)]
        /\ UNCHANGED <<nextLineItemId, checkoutVars, pageVars>>

incrementLineItemQuantity(customerNumber, lineItemId, delta) ==
    LET cart == CartOf(cartStore, customerNumber)
        item == FindById(cart, lineItemId)
        store == [cartStore EXCEPT
                     ![customerNumber][item].quantity = NewQuantity(@, delta)]
    IN  /\ IF item = 0
           THEN /\ storeResult' = [op |-> "incrementLineItemQuantity",
                                   customerNumber |-> customerNumber,
                                   lineItemId |-> lineItemId, delta |-> delta,
                                   thrown |-> ErrNotFound]
                /\ UNCHANGED cartStore
           ELSE /\ cart[item].quantity + delta <= MaxStoreQty
                /\ cartStore' = store
                /\ storeResult' = [op |-> "incrementLineItemQuantity",
                                   customerNumber |-> customerNumber,
                                   lineItemId |-> lineItemId, delta |-> delta,
                                   thrown |-> NoError,
                                   returned |-> getCart(store, customerNumber)]
        /\ UNCHANGED <<nextLineItemId, checkoutVars, pageVars>>

removeLineItem(customerNumber, lineItemId) ==
    /\ cartStore' =
          IF customerNumber \notin DOMAIN cartStore THEN cartStore
          ELSE [cartStore EXCEPT
                   ![customerNumber] = SelectSeq(@, LAMBDA item : item.id # lineItemId)]
    /\ storeResult' = [op |-> "removeLineItem", customerNumber |-> customerNumber,
                       lineItemId |-> lineItemId, thrown |-> NoError]
    /\ UNCHANGED <<nextLineItemId, checkoutVars, pageVars>>

NextStore ==
    \/ \E c \in Customers : storeGetCart(c)
    \/ \E c \in Customers, i \in ItemIds, s \in Skus, q \in 1..MaxStoreQty :
          addToCart(c, i, s, q)
    \/ \E c \in Customers, id \in LineItemIds, q \in 1..MaxStoreQty :
          updateLineItemQuantity(c, id, q)
    \/ \E c \in Customers, id \in LineItemIds, d \in (0 - MaxDelta)..MaxDelta :
          incrementLineItemQuantity(c, id, d)
    \/ \E c \in Customers, id \in LineItemIds : removeLineItem(c, id)

SpecStore == Init /\ [][NextStore]_vars

(***************************************************************************)
(* The bucket filters of OrderSummaryDialog on one line of a response.     *)
(***************************************************************************)
\* the buckets whose filter keeps the line
BucketsOf(l) ==
    LET lines == [s \in {"A"} |-> l]
    IN  {b \in {"available", "insufficient", "unavailable"} :
            \/ b = "available" /\ availableItems(lines) # {}
            \/ b = "insufficient" /\ insufficientStockItems(lines) # {}
            \/ b = "unavailable" /\ unavailableItems(lines) # {}}

Categorize ==
    /\ buckets = NotCategorized
    /\ buckets' = BucketsOf(line)
    /\ UNCHANGED <<isOpen, cartVars, selectedSkuIds, isCheckoutLoading, orderSummaryData,
                   showOrderSummary, lastRenderedSkuIds, isCreatingOrder,
                   adjustedQuantities, isRecalculating, renderReqs, patching, orderReq,
                   removing, line, calls, pageVars, removals, storeVars>>

InitClassify ==
    /\ InitClient
    /\ serverCart = [s \in Skus |-> MaxQty]
    /\ line \in Lines(MaxLineQty)
    /\ buckets = NotCategorized
    /\ calls = 0

NextClassify == Categorize

SpecClassify == InitClassify /\ [][NextClassify]_vars

(***************************************************************************)
(* ProductDetailPage: loading, the effects on the SKUs, and selecting.     *)
(***************************************************************************)
\* fetchProductDetail: data.success && data.data, setProduct(data.data),
\* for the products the item-detail service may answer with
fetchProductDetail(products) ==
    /\ ~product.loaded
    /\ \E prod \in products : product' = prod
    /\ UNCHANGED <<selectedSku, selectedProperties, propertyGroups, hasSkuProperties,
                   propertyImageMap, effectDeps, checkoutVars, storeVars>>

\* the effects of one render, in the order of their definition: auto-select
\* SKU, extract property groups, auto-match SKU; each runs when one of its
\* dependencies changed, reads the state of the render, and the state
\* setters take effect afterwards, the last setSelectedSku winning
RunEffects ==
    /\ ~Settled
    /\ LET productChanged == effectDeps.product # product
           runAutoSelect == productChanged \/ effectDeps.hasSkuProperties # hasSkuProperties
           runExtract ==
               productChanged /\ product.loaded /\ Len(product.sku_list) > 0
           afterAutoSelect ==
               IF runAutoSelect
               THEN AutoSelectSku(product, hasSkuProperties, selectedSku)
               ELSE selectedSku
       IN  /\ selectedSku' =
                 AutoMatchSku(product, hasSkuProperties, selectedProperties,
                              Len(propertyGroups), afterAutoSelect)
           /\ propertyGroups' =
                 IF runExtract THEN propertyGroupsArray(product.sku_list) ELSE propertyGroups
           /\ hasSkuProperties' =
                 IF runExtract
                 THEN Len(propertyGroupsArray(product.sku_list)) > 0
                 ELSE hasSkuProperties
           /\ propertyImageMap' =
                 IF runExtract
                 THEN BuildPropertyImageMap(NoSelection, product.property_image_list)
                 ELSE propertyImageMap
    /\ effectDeps' = Deps
    /\ UNCHANGED <<product, selectedProperties, checkoutVars, storeVars>>

\* the button of an Option, disabled={!isAvailable}
handlePropertySelect(propName, valueName) ==
    /\ Settled
    /\ product.loaded
    /\ hasSkuProperties
    /\ \E j \in 1..Len(propertyGroups) :
          /\ propertyGroups[j].propName = propName
          /\ HasOption(propertyGroups[j].options, valueName)
    /\ isOptionAvailable(product, selectedProperties, propName, valueName)
    /\ selectedProperties' = ToggleProperty(selectedProperties, propName, valueName)
    /\ UNCHANGED <<product, selectedSku, propertyGroups, hasSkuProperties,
                   propertyImageMap, effectDeps, checkoutVars, storeVars>>

\* the card of a SKU in the simple SKU selector, disabled={!isAvailable}:
\* setSelectedSku(sku)
SelectSkuCard(i) ==
    /\ Settled
    /\ product.loaded
    /\ ~hasSkuProperties
    /\ i \in 1..Len(product.sku_list)
    /\ product.sku_list[i].quantity > 0
    /\ selectedSku' = i
    /\ UNCHANGED <<product, selectedProperties, propertyGroups, hasSkuProperties,
                   propertyImageMap, effectDeps, checkoutVars, storeVars>>

\* every value name of the model
AllValueNames == UNION {ValueNames[n] : n \in PropNames}

\* products without property images
Products == {LoadedProduct(skuList, <<>>) : skuList \in SkuLists(MaxSkus)}

NextPage ==
    \/ fetchProductDetail(Products)
    \/ RunEffects
    \/ \E propName \in PropNames, valueName \in AllValueNames :
          handlePropertySelect(propName, valueName)
    \/ \E i \in 1..MaxSkus : SelectSkuCard(i)

InitPage ==
    /\ InitClient
    /\ serverCart = [s \in Skus |-> MaxQty]
    /\ line = NoLine
    /\ buckets = NotCategorized
    /\ calls = 0

SpecPage == InitPage /\ [][NextPage]_vars

\* products of one SKU that carries a Color, with property images
ImageProducts ==
    {LoadedProduct(<<[properties |-> <<Prop("Color", "Red")>>, quantity |-> 1]>>, imageList) :
        imageList \in ImageLists(MaxImages)}

NextImages ==
    \/ fetchProductDetail(ImageProducts)
    \/ RunEffects

SpecImages == InitPage /\ [][NextImages]_vars

(***************************************************************************)
(* Properties of the checkout workflow.                                    *)
(***************************************************************************)
Lines0 == orderSummaryData.line_items

\* a step that sends an order request
OrderSent == ~orderReq.active /\ orderReq'.active

\* C1: an order request is sent only when, in the reconciliation result
\* shown, the Insufficient and the Unavailable bucket are empty and the
\* Available bucket is not.
C1_CreateOrderOnlyWhenClean ==
    [][OrderSent =>
          /\ \A s \in DOMAIN Lines0 : Lines0[s].is_available
          /\ DOMAIN Lines0 # {}]_vars

\* C2: every order request carries the SKU list of the validation pass whose
\* result is the one shown in the summary dialog.
C2_OrderCarriesShownList ==
    [][OrderSent => orderReq'.sku_ids = DOMAIN Lines0]_vars

\* C3: at most one render-order request is outstanding at any time.
C3_OneValidationAtATime == Len(renderReqs) <= 1

\* C6: a validation request that succeeds ends in Reviewing with the new
\* result; one that fails sets an error and leaves the dialog and the result
\* shown as they are, and a failed re-validation has the SKU list to commit
\* back at what it was before the request and keeps the adjustments of the
\* dialog that awaits it.
C6_ValidationOutcome ==
    [][\A i \in 1..Len(renderReqs) :
          /\ RenderOrderOk(i) =>
                /\ orderSummaryData'.present
                /\ DOMAIN orderSummaryData'.line_items = renderReqs[i].sku_ids
                /\ renderReqs[i].kind = "first" => showOrderSummary'
          /\ RenderOrderFail(i) =>
                /\ error' # NoError
                /\ showOrderSummary' = showOrderSummary
                /\ orderSummaryData' = orderSummaryData
                /\ renderReqs[i].kind = "recalc" =>
                      /\ lastRenderedSkuIds' = renderReqs[i].prevList
                      /\ adjustedQuantities' = adjustedQuantities]_vars

\* the SKU set a Re-Calculate click has to submit, from the fields of the
\* lines shown and the adjustments made
ExpectedReValidation ==
    {s \in DOMAIN Lines0 :
        \/ Lines0[s].is_available
        \/ /\ ~Lines0[s].is_available
           /\ Lines0[s].available_quantity.tag = "number"
           /\ Lines0[s].available_quantity.n > 0
           /\ (s \in DOMAIN adjustedQuantities => adjustedQuantities[s] > 0)}

\* the SKU set of the handleReCalculate call that a step starts
StartedReValidation ==
    IF Len(patching') > Len(patching)
    THEN patching'[Len(patching')].sku_ids
    ELSE renderReqs'[Len(renderReqs')].sku_ids

\* C7: Re-Validate submits every Available line and every Insufficient line
\* whose adjusted quantity is absent or above 0, and nothing else; a line
\* adjusted to 0 is not PATCHed to the cart either, and the render-order
\* call made after the PATCHes carries the same SKU set.
C7_ReValidatePayload ==
    [][/\ handleReCalculate =>
             /\ StartedReValidation = ExpectedReValidation
             /\ \A s \in DOMAIN adjustedQuantities :
                   adjustedQuantities[s] = 0 => s \notin StartedReValidation
             /\ \A c \in {patching'[j] : j \in 1..Len(patching')} :
                   \A s \in DOMAIN c.patches : c.patches[s] > 0
       /\ \A i \in 1..Len(patching) :
             (PatchApplied(i) \/ PatchRejected(i)) /\ Len(renderReqs') > Len(renderReqs) =>
                 /\ renderReqs'[Len(renderReqs')].sku_ids = patching[i].sku_ids
                 /\ renderReqs'[Len(renderReqs')].kind = "recalc"]_vars

\* C7 witness: a re-validation is in flight that left out a line adjusted
\* to 0 and took an Available line along.
C7_Witness ==
    \E i \in 1..Len(renderReqs) :
        /\ renderReqs[i].kind = "recalc"
        /\ renderReqs[i].mounted
        /\ \E s \in DOMAIN adjustedQuantities :
              adjustedQuantities[s] = 0 /\ s \notin renderReqs[i].sku_ids
        /\ \E s \in renderReqs[i].sku_ids : s \in DOMAIN Lines0 /\ Lines0[s].is_available

\* C10: when an order request succeeds the committed lines leave the cart
\* and the reconciliation state (the result shown and the SKU list to
\* commit) is discarded.
C10_OrderSuccessDiscards ==
    [][OrderOk =>
          /\ DOMAIN serverCart' \cap orderReq.sku_ids = {}
          /\ ~showOrderSummary'
          /\ orderSummaryData' = NoData
          /\ lastRenderedSkuIds' = {}]_vars

\* C11: when an order request fails, an error is set and the dialog, the
\* result shown, the SKU list to commit and the cart are left as they are;
\* when the summary showed the Create Order button it still does, enabled,
\* and a click would send the same SKU list.
C11_OrderFailureKeepsReview ==
    [][OrderFail =>
          /\ error' # NoError
          /\ showOrderSummary' = showOrderSummary
          /\ orderSummaryData' = orderSummaryData
          /\ lastRenderedSkuIds' = lastRenderedSkuIds
          /\ adjustedQuantities' = adjustedQuantities
          /\ serverCart' = serverCart
          /\ ~isCreatingOrder'
          /\ ~orderReq'.active
          /\ (Visible /\ CreateOrderShown(Lines0, adjustedQuantities)) =>
                /\ Visible'
                /\ CreateOrderShown(orderSummaryData'.line_items, adjustedQuantities')
                /\ skuIdsToOrder(lastRenderedSkuIds', selectedSkuIds') =
                      skuIdsToOrder(lastRenderedSkuIds, selectedSkuIds)]_vars

\* C11 witness: an order request has failed and the summary dialog still
\* shows the same result with an enabled Create Order button.
C11_Witness ==
    /\ error = ErrOrder
    /\ Visible
    /\ CreateOrderShown(Lines0, adjustedQuantities)
    /\ ~isCreatingOrder
    /\ ~orderReq.active
    /\ lastRenderedSkuIds = DOMAIN Lines0

\* the Unavailable bucket of the result shown, from the fields of its lines
UnavailableShown ==
    {s \in DOMAIN Lines0 :
        /\ ~Lines0[s].is_available
        /\ Lines0[s].available_quantity \in {NullQty, UndefinedQty, NumQty(0)}}

\* C12: Remove Unavailable takes the lines of the Unavailable bucket and no
\* other line; it removes no other line from the cart or from the
\* selection, and when it completes none of its lines is left in the cart
\* or in the selection.
C12_RemoveUnavailable ==
    [][/\ handleRemoveUnavailable =>
             removing'[Len(removing')].sku_ids = UnavailableShown
       /\ \A i \in 1..Len(removing) :
             (DeleteApplied(i) \/ DeleteFailed(i)) =>
                 /\ (DOMAIN serverCart \ DOMAIN serverCart') \subseteq removing[i].sku_ids
                 /\ (selectedSkuIds \ selectedSkuIds') \subseteq removing[i].sku_ids
                 /\ Len(removing') < Len(removing) =>
                       /\ DOMAIN serverCart' \cap removing[i].sku_ids = {}
                       /\ selectedSkuIds' \cap removing[i].sku_ids = {}]_vars

\* C30: every line of the result shown is in exactly one of the three
\* buckets; Remove Unavailable takes the lines of the Unavailable bucket
\* shown, and each of them is deleted from the cart.
C30_BucketsAndRemoval ==
    [][/\ \A s \in DOMAIN Lines0 :
             Cardinality({b \in {availableItems(Lines0), insufficientStockItems(Lines0),
                                 unavailableItems(Lines0)} : s \in b}) = 1
       /\ availableItems(Lines0) \cap insufficientStockItems(Lines0) = {}
       /\ availableItems(Lines0) \cap unavailableItems(Lines0) = {}
       /\ insufficientStockItems(Lines0) \cap unavailableItems(Lines0) = {}
       /\ handleRemoveUnavailable =>
             removing'[Len(removing')].pending = unavailableItems(Lines0)
       /\ \A i \in 1..Len(removing) :
             (DeleteApplied(i) \/ DeleteFailed(i)) =>
                FirstOf(removing[i].pending) \notin DOMAIN serverCart']_vars

\* C13: no render-order request and no order request in flight carries an
\* empty SKU list.
C13_NoEmptyRequest ==
    /\ \A i \in 1..Len(renderReqs) : renderReqs[i].sku_ids # {}
    /\ orderReq.active => orderReq.sku_ids # {}

\* C22: while the summary dialog is shown, every adjusted quantity recorded
\* for an Insufficient line is at least 0 and at most the available_quantity
\* of that line.
C22_AdjustedInRange ==
    Visible =>
        \A s \in DOMAIN adjustedQuantities \cap DOMAIN Lines0 :
            (/\ ~Lines0[s].is_available
             /\ Lines0[s].available_quantity.tag = "number"
             /\ Lines0[s].available_quantity.n > 0) =>
                /\ adjustedQuantities[s] >= 0
                /\ adjustedQuantities[s] <= Lines0[s].available_quantity.n

\* C23: a failed render-order, order or quantity-update call leaves no
\* request of any of these kinds behind in its place; a render-order request
\* is started only by Proceed to Checkout or by a Re-Calculate Order click
\* (at once or when its last cart PATCH has settled), one per click; an
\* order request only by Create Order; a quantity update only by a click on
\* the stepper, one per click.
C23_NoRetry ==
    [][/\ \A i \in 1..Len(renderReqs) :
             RenderOrderFail(i) =>
                /\ Len(renderReqs') = Len(renderReqs) - 1
                /\ patching' = patching
                /\ orderReq' = orderReq
                /\ updates' = updates
       /\ OrderFail =>
             /\ ~orderReq'.active
             /\ renderReqs' = renderReqs
             /\ patching' = patching
             /\ updates' = updates
       /\ \A s \in Skus :
             (UpdateRejected(s) \/ UpdateThrows(s)) =>
                /\ DOMAIN updates' = DOMAIN updates \ {s}
                /\ renderReqs' = renderReqs
                /\ orderReq' = orderReq
       /\ Len(renderReqs') > Len(renderReqs) =>
             /\ Len(renderReqs') = Len(renderReqs) + 1
             /\ \/ handleProceedToCheckout
                \/ handleReCalculate
                \/ \E i \in 1..Len(patching) : PatchApplied(i) \/ PatchRejected(i)
       /\ (handleReCalculate \/ \E i \in 1..Len(patching) : PatchApplied(i) \/ PatchRejected(i)) =>
             Len(renderReqs') + Len(patching') <=
                Len(renderReqs) + Len(patching) + (IF handleReCalculate THEN 1 ELSE 0)
       /\ (orderReq'.active /\ ~orderReq.active) => handleCreateOrder
       /\ ~(DOMAIN updates' \subseteq DOMAIN updates) =>
             /\ Cardinality(DOMAIN updates') = Cardinality(DOMAIN updates) + 1
             /\ \E s \in Skus, q \in 0..(MaxQty + 1) : updateQuantity(s, q)]_vars

\* C23 witness: a re-validation has failed, its error is shown, and no
\* request is outstanding.
C23_Witness ==
    /\ error = ErrReCalculate
    /\ Visible
    /\ Len(renderReqs) = 0
    /\ Len(patching) = 0
    /\ ~orderReq.active
    /\ DOMAIN updates = {}

\* C28: the checkout selection holds only SKU ids of lines of the displayed
\* cart.
C28_SelectionWithinCart == selectedSkuIds \subseteq DOMAIN items

(***************************************************************************)
(* Properties of the product page.                                         *)
(***************************************************************************)
SkuList == product.sku_list

\* Color x Size with SKU(Red, S) out of stock and the other three in stock
RedSmallOutOfStock ==
    <<[properties |-> <<Prop("Color", "Red"), Prop("Size", "S")>>, quantity |-> 0],
      [properties |-> <<Prop("Color", "Red"), Prop("Size", "M")>>, quantity |-> 1],
      [properties |-> <<Prop("Color", "Blue"), Prop("Size", "S")>>, quantity |-> 1],
      [properties |-> <<Prop("Color", "Blue"), Prop("Size", "M")>>, quantity |-> 1]>>

\* the (name, value) pairs that the SKU at position i carries
PairsOf(i) == {SkuList[i].properties[k] : k \in 1..Len(SkuList[i].properties)}

\* C14: isOptionAvailable(g, v) is true iff some SKU carries v for g,
\* carries the selected value of every other group that has a selection,
\* and has stock > 0; with SKU(Red, S) at stock 0 and the other three
\* combinations in stock, Color = Red makes Size = S unavailable and leaves
\* Size = M available.
C14_OptionAvailable ==
    product.loaded =>
        /\ \A g \in PropNames, v \in AllValueNames :
              isOptionAvailable(product, selectedProperties, g, v) <=>
                 \E i \in 1..Len(SkuList) :
                    /\ Prop(g, v) \in PairsOf(i)
                    /\ \A h \in DOMAIN selectedProperties \ {g} :
                          Prop(h, selectedProperties[h]) \in PairsOf(i)
                    /\ SkuList[i].quantity > 0
        /\ (SkuList = RedSmallOutOfStock /\ selectedProperties = [g \in {"Color"} |-> "Red"]) =>
              /\ ~isOptionAvailable(product, selectedProperties, "Size", "S")
              /\ isOptionAvailable(product, selectedProperties, "Size", "M")

\* C14 witness: the four combinations with SKU(Red, S) out of stock are
\* loaded and Color = Red has been selected.
C14_Witness ==
    /\ product.loaded
    /\ SkuList = RedSmallOutOfStock
    /\ selectedProperties = [g \in {"Color"} |-> "Red"]
    /\ Settled

\* the SKUs whose property set is exactly the Selection
ExactMatches ==
    {i \in 1..Len(SkuList) :
        PairsOf(i) = {Prop(g, selectedProperties[g]) : g \in DOMAIN selectedProperties}}

\* C15: once the effects have run, the selected SKU of a product with
\* property groups is none while a group has no selected value, and with
\* every group selected it is a SKU whose property set equals the
\* Selection, or none when there is no such SKU.
C15_ResolvedSku ==
    (product.loaded /\ Settled /\ hasSkuProperties /\ Len(propertyGroups) > 0) =>
        IF \E j \in 1..Len(propertyGroups) :
              propertyGroups[j].propName \notin DOMAIN selectedProperties
        THEN selectedSku = 0
        ELSE IF ExactMatches = {} THEN selectedSku = 0 ELSE selectedSku \in ExactMatches

\* C16: a click on the selected value of a group removes the entry of the
\* group, a click on another value sets the entry to it; the entry of
\* every other group is as before.
C16_Toggle ==
    [][\A g \in PropNames, v \in AllValueNames :
          handlePropertySelect(g, v) =>
             /\ IF g \in DOMAIN selectedProperties /\ selectedProperties[g] = v
                THEN g \notin DOMAIN selectedProperties'
                ELSE g \in DOMAIN selectedProperties' /\ selectedProperties'[g] = v
             /\ \A h \in PropNames \ {g} :
                   /\ h \in DOMAIN selectedProperties' <=> h \in DOMAIN selectedProperties
                   /\ h \in DOMAIN selectedProperties =>
                         selectedProperties'[h] = selectedProperties[h]]_vars

\* C16 witness: a value is selected in each of two groups and the SKU is
\* resolved.
C16_Witness ==
    /\ Cardinality(DOMAIN selectedProperties) = 2
    /\ Settled
    /\ selectedSku # 0

\* C17: for every option selected in the Selection, toggling it twice
\* gives the Selection back.
C17_ToggleTwice ==
    \A g \in DOMAIN selectedProperties :
        ToggleProperty(ToggleProperty(selectedProperties, g, selectedProperties[g]),
                       g, selectedProperties[g]) = selectedProperties

\* C17 witness: Color = Blue and Size = M are selected, and the first
\* toggle of either leaves the other one selected.
C17_Witness ==
    /\ selectedProperties = [g \in PropNames |-> IF g = "Color" THEN "Blue" ELSE "M"]
    /\ DOMAIN ToggleProperty(selectedProperties, "Color", "Blue") = {"Size"}

\* no SKU of the product carries a property
NoSkuProperties == \A i \in 1..Len(SkuList) : SkuList[i].properties = <<>>

\* C18: for a product whose SKUs carry no properties, the run of the
\* effects that settles them leaves the only SKU selected when there is one
\* SKU, and the first SKU in list order with stock > 0 when there are
\* several and one is in stock.
C18_AutoSelect ==
    [][(RunEffects /\ Settled' /\ product.loaded /\ Len(SkuList) > 0 /\ NoSkuProperties) =>
          /\ Len(SkuList) = 1 => selectedSku' = 1
          /\ (Len(SkuList) > 1 /\ \E i \in 1..Len(SkuList) : SkuList[i].quantity > 0) =>
                /\ SkuList[selectedSku'].quantity > 0
                /\ \A j \in 1..(selectedSku' - 1) : SkuList[j].quantity = 0]_vars

\* C18 witness: three SKUs without properties, the first out of stock, and
\* the settled effects have selected the second.
C18_Witness ==
    /\ product.loaded
    /\ Settled
    /\ Len(SkuList) = 3
    /\ NoSkuProperties
    /\ ~hasSkuProperties
    /\ SkuList[1].quantity = 0
    /\ SkuList[2].quantity > 0
    /\ selectedSku = 2

\* C20: once an extraction has run on a non-empty SKU list, every property
\* name that occurs on a SKU names exactly one group and no other group
\* exists; within a group every value name that occurs for the property is
\* exactly one Option and no other Option exists.
C20_GroupsPartition ==
    (product.loaded /\ effectDeps.product = product /\ Len(SkuList) > 0) =>
        /\ \A n \in PropNames :
              Cardinality({j \in 1..Len(propertyGroups) : propertyGroups[j].propName = n}) =
                 IF \E i \in 1..Len(SkuList), v \in AllValueNames : Prop(n, v) \in PairsOf(i)
                 THEN 1 ELSE 0
        /\ \A j \in 1..Len(propertyGroups) :
              /\ propertyGroups[j].propName \in PropNames
              /\ \A v \in AllValueNames :
                    Cardinality({k \in 1..Len(propertyGroups[j].options) :
                                    propertyGroups[j].options[k] = v}) =
                       IF \E i \in 1..Len(SkuList) :
                             Prop(propertyGroups[j].propName, v) \in PairsOf(i)
                       THEN 1 ELSE 0

\* C20 witness: the extraction made two groups out of three SKUs, one of a
\* single Option and one of two.
C20_Witness ==
    /\ product.loaded
    /\ Len(SkuList) = 3
    /\ Len(propertyGroups) = 2
    /\ Len(propertyGroups[1].options) = 1
    /\ Len(propertyGroups[2].options) = 2

\* C21: once the extraction has run, each group of propertyGroups has at
\* most as many Options as the group that follows it.
C21_GroupsSortedByOptions ==
    (product.loaded /\ effectDeps.product = product /\ Len(SkuList) > 0) =>
        \A j \in 1..(Len(propertyGroups) - 1) :
            Len(propertyGroups[j].options) <= Len(propertyGroups[j + 1].options)

\* C21 witness: Color, met first on the SKUs, has two Options and Size has
\* one, and the extraction has put Size first.
C21_Witness ==
    /\ product.loaded
    /\ Len(SkuList) = 2
    /\ SkuList[1].properties = <<Prop("Color", "Red"), Prop("Size", "S")>>
    /\ SkuList[2].properties = <<Prop("Color", "Blue"), Prop("Size", "S")>>
    /\ propertyGroups =
          <<[propName |-> "Size", options |-> <<"S">>],
            [propName |-> "Color", options |-> <<"Red", "Blue">>]>>

\* a SKU in stock carries every value of the selection
InStockCarrier(selection) ==
    \E i \in 1..Len(SkuList) :
        /\ SkuList[i].quantity > 0
        /\ \A g \in DOMAIN selection : SomeProp(SkuList[i], g, selection[g])

\* every option of the selection has an enabled button
SelectedStayEnabled(selection) ==
    \A g \in DOMAIN selection : isOptionAvailable(product, selection, g, selection[g])

\* every SKU has one value for every group, and no two SKUs the same values
UniqueCoveringSkus ==
    /\ Len(propertyGroups) > 0
    /\ \A i \in 1..Len(SkuList) :
          /\ Len(SkuList[i].properties) = Len(propertyGroups)
          /\ \A j \in 1..Len(propertyGroups) :
                \E k \in 1..Len(SkuList[i].properties) :
                    SkuList[i].properties[k].prop_name = propertyGroups[j].propName
    /\ \A i, j \in 1..Len(SkuList) :
          SkuList[i].properties = SkuList[j].properties => i = j

\* the selection has a value for every group
CompleteSelection ==
    DOMAIN selectedProperties = {propertyGroups[j].propName : j \in 1..Len(propertyGroups)}

\* C27: a click on an enabled option leaves a selection of which a SKU in
\* stock carries every value; the button of every selected option is
\* enabled; and when every SKU has one value for every group and no two
\* SKUs have the same values, a complete selection resolves, once the effects
\* have run, to a SKU in stock.
C27_EnabledClicks ==
    [][/\ \A propName \in PropNames, valueName \in AllValueNames :
             handlePropertySelect(propName, valueName) => InStockCarrier(selectedProperties)'
       /\ SelectedStayEnabled(selectedProperties)'
       /\ (Settled /\ product.loaded /\ UniqueCoveringSkus /\ CompleteSelection)' =>
             (selectedSku # 0 /\ SkuList[selectedSku].quantity > 0)']_vars

\* C27 witness: two groups, every SKU with one value for each, one SKU out
\* of stock, and a complete selection that has resolved to a SKU in stock.
C27_Witness ==
    /\ Settled
    /\ product.loaded
    /\ UniqueCoveringSkus
    /\ Len(propertyGroups) = 2
    /\ CompleteSelection
    /\ \E i \in 1..Len(SkuList) : SkuList[i].quantity = 0
    /\ selectedSku # 0
    /\ SkuList[selectedSku].quantity > 0

\* C29: when the product has one SKU, that SKU is the selected SKU once the
\* effects of the load have all run.
C29_SingleSkuSelected ==
    [][(RunEffects /\ Settled' /\ Len(SkuList) = 1 /\ selectedProperties = NoSelection) =>
          selectedSku' = 1]_vars

(***************************************************************************)
(* Properties of the option image lookup.                                  *)
(***************************************************************************)
ImageList == product.property_image_list

\* the entries with an image and one pair, the key
SinglesOf(key) ==
    {i \in 1..Len(ImageList) :
        /\ ImageList[i].image_url # ""
        /\ Len(ImageList[i].properties) = 1
        /\ ImageList[i].properties[1] = key}

\* the entries with an image and several pairs, the first of them the key
MultisOf(key) ==
    {i \in 1..Len(ImageList) :
        /\ ImageList[i].image_url # ""
        /\ Len(ImageList[i].properties) > 1
        /\ ImageList[i].properties[1] = key}

First(S) == CHOOSE i \in S : \A j \in S : i <= j

Last(S) == CHOOSE i \in S : \A j \in S : j <= i

ImageMapBuilt == product.loaded /\ effectDeps.product = product /\ Len(SkuList) > 0

\* C19 as stated: a key with single-property entries has the image of the
\* first of them; an entry of several properties supplies the image of a
\* key only when the key has no single-property entry.
C19_FirstSingleWins ==
    ImageMapBuilt =>
        \A key \in ImageKeys \ {""} :
            IF SinglesOf(key) # {}
            THEN /\ key \in DOMAIN propertyImageMap
                 /\ propertyImageMap[key] = ImageList[First(SinglesOf(key))].image_url
            ELSE IF MultisOf(key) # {}
            THEN /\ key \in DOMAIN propertyImageMap
                 /\ propertyImageMap[key] = ImageList[First(MultisOf(key))].image_url
            ELSE key \notin DOMAIN propertyImageMap

\* C19 amended: a key with single-property entries has the image of the
\* last of them in list order; a key without one has the image of the
\* first entry of several properties whose first pair is the key, and a key
\* with neither has no image.
C19_LastSingleWins ==
    ImageMapBuilt =>
        \A key \in ImageKeys \ {""} :
            IF SinglesOf(key) # {}
            THEN /\ key \in DOMAIN propertyImageMap
                 /\ propertyImageMap[key] = ImageList[Last(SinglesOf(key))].image_url
            ELSE IF MultisOf(key) # {}
            THEN /\ key \in DOMAIN propertyImageMap
                 /\ propertyImageMap[key] = ImageList[First(MultisOf(key))].image_url
            ELSE key \notin DOMAIN propertyImageMap

\* C19 witness: two single-property entries of a key with different images
\* and then an entry of several properties for the same key; the map holds
\* the image of the second single-property entry.
C19_Witness ==
    /\ ImageMapBuilt
    /\ Len(ImageList) = 3
    /\ ImageList[1] = [properties |-> <<"1:1">>, image_url |-> "a.jpg"]
    /\ ImageList[2] = [properties |-> <<"1:1">>, image_url |-> "b.jpg"]
    /\ ImageList[3] = [properties |-> <<"1:1", "1:2">>, image_url |-> "a.jpg"]
    /\ propertyImageMap = [k \in {"1:1"} |-> "b.jpg"]

(***************************************************************************)
(* Properties of the cart store.                                           *)
(***************************************************************************)
\* the positions of the lines of a customer's cart with a given id
LinesWithId(store, customerNumber, lineItemId) ==
    {i \in 1..Len(CartOf(store, customerNumber)) :
        CartOf(store, customerNumber)[i].id = lineItemId}

\* C24: a customer's cart has at most one line per SKU.
C24_OneLinePerSku ==
    \A c \in DOMAIN cartStore :
        \A i, j \in 1..Len(cartStore[c]) :
            cartStore[c][i].skuId = cartStore[c][j].skuId => i = j

\* C25: updateLineItemQuantity on an id that no line of the customer's cart
\* has throws "Item not found in cart" and leaves every cart as it was;
\* on the id of a line it throws nothing, gives that line the quantity and
\* leaves every other line of every cart as it was.
C25_SetQuantity ==
    [][\A c \in Customers, id \in LineItemIds, q \in 1..MaxStoreQty :
          updateLineItemQuantity(c, id, q) =>
             IF LinesWithId(cartStore, c, id) = {}
             THEN /\ storeResult'.thrown = ErrNotFound
                  /\ cartStore' = cartStore
             ELSE /\ storeResult'.thrown = NoError
                  /\ DOMAIN cartStore' = DOMAIN cartStore
                  /\ \A c2 \in DOMAIN cartStore :
                        /\ Len(cartStore'[c2]) = Len(cartStore[c2])
                        /\ \A i \in 1..Len(cartStore[c2]) :
                              cartStore'[c2][i] =
                                 IF c2 = c /\ cartStore[c2][i].id = id
                                 THEN [cartStore[c2][i] EXCEPT !.quantity = q]
                                 ELSE cartStore[c2][i]]_vars

\* C25 witness: the customer has two lines, and the last call has given one
\* of them a quantity that the other does not have.
C25_Witness ==
    /\ storeResult.op = "updateLineItemQuantity"
    /\ storeResult.thrown = NoError
    /\ Len(CartOf(cartStore, storeResult.customerNumber)) = 2
    /\ \E i, j \in 1..2 :
          LET cart == CartOf(cartStore, storeResult.customerNumber)
          IN  /\ cart[i].id = storeResult.lineItemId
              /\ cart[i].quantity = storeResult.quantity
              /\ cart[j].quantity # storeResult.quantity

\* C26: incrementLineItemQuantity on the id of a line of the customer's
\* cart keeps the line, at its place, with the quantity max(1, old + delta),
\* and removes no line.
C26_IncrementClamps ==
    [][\A c \in Customers, id \in LineItemIds, d \in (0 - MaxDelta)..MaxDelta :
          (incrementLineItemQuantity(c, id, d) /\ LinesWithId(cartStore, c, id) # {}) =>
             /\ storeResult'.thrown = NoError
             /\ Len(cartStore'[c]) = Len(cartStore[c])
             /\ \A i \in LinesWithId(cartStore, c, id) :
                   /\ cartStore'[c][i].id = id
                   /\ cartStore'[c][i].quantity =
                         Max(1, cartStore[c][i].quantity + d)]_vars

\* C26 witness: the last call was an increment by the most negative step,
\* which takes any quantity of the model to 0 or below, and the line is
\* there with the quantity 1.
C26_Witness ==
    /\ storeResult.op = "incrementLineItemQuantity"
    /\ storeResult.thrown = NoError
    /\ storeResult.delta = 0 - MaxDelta
    /\ \E i \in LinesWithId(cartStore, storeResult.customerNumber, storeResult.lineItemId) :
          cartStore[storeResult.customerNumber][i].quantity = 1

(***************************************************************************)
(* Properties of the quantity stepper.                                     *)
(***************************************************************************)
\* C4: once every call has settled, the quantity displayed for each cart
\* line is the quantity the cart service holds for it.
C4_NoDriftWhenSettled ==
    (DOMAIN updates = {} /\ fetches = 0) =>
        \A s \in DOMAIN items \cap DOMAIN serverCart : items[s] = serverCart[s]

\* C5: updateQuantity shows the new quantity at once, before the cart
\* service answers; a failed call puts the displayed cart back to the
\* snapshot taken before the update and sets an error; a successful call
\* leaves the displayed cart as it is.
C5_OptimisticUpdate ==
    [][\A s \in Skus :
          /\ \A q \in 0..(MaxQty + 1) :
                updateQuantity(s, q) =>
                   /\ items'[s] = q
                   /\ \A t \in DOMAIN items \ {s} : items'[t] = items[t]
                   /\ serverCart' = serverCart
                   /\ updates'[s].previousItems = items
          /\ (UpdateRejected(s) \/ UpdateThrows(s)) =>
                /\ items' = updates[s].previousItems
                /\ error' # NoError
                /\ serverCart' = serverCart
          /\ UpdateOk(s) =>
                /\ items' = items
                /\ s \in DOMAIN serverCart => serverCart'[s] = updates[s].quantity]_vars

\* C5 witness: a failed update has been rolled back after the new quantity
\* had been shown: the error is set and the display is the snapshot again.
C5_Witness ==
    /\ error = ErrUpdate
    /\ DOMAIN updates = {}
    /\ isOpen
    /\ items = serverCart

(***************************************************************************)
(* Properties of the bucket filters.                                       *)
(***************************************************************************)
Categorized == buckets # NotCategorized

\* C8 as stated: with a fulfillable quantity a > 0, a line is available
\* when a >= r and insufficient only when a < r.
C8_ByQuantity ==
    (Categorized /\ PositiveQty(line.available_quantity)) =>
        /\ line.available_quantity.n >= line.quantity => buckets = {"available"}
        /\ "insufficient" \in buckets => line.available_quantity.n < line.quantity

\* C8 amended: with a fulfillable quantity a > 0, the is_available flag of
\* the line decides alone: available when it is set, insufficient when it
\* is not, whatever a and r are.
C8_ByFlag ==
    (Categorized /\ line.available_quantity.tag = "number" /\ line.available_quantity.n > 0) =>
        buckets = IF line.is_available THEN {"available"} ELSE {"insufficient"}

\* C8 witness: r = 5, a = 3, not flagged available, categorized insufficient.
C8_Witness ==
    /\ line.quantity = 5
    /\ line.available_quantity = NumQty(3)
    /\ ~line.is_available
    /\ buckets = {"insufficient"}

\* C9 as stated: a line whose available_quantity is null, undefined or 0 is
\* unavailable, whatever its requested quantity.
C9_NoQuantityIsUnavailable ==
    (Categorized /\ line.available_quantity \in {NullQty, UndefinedQty, NumQty(0)}) =>
        buckets = {"unavailable"}

\* C9 amended: a line that is not flagged available and whose
\* available_quantity is null, undefined or 0 is unavailable, whatever its
\* requested quantity; a line flagged available is available also then.
C9_NoQuantityUnflaggedIsUnavailable ==
    (Categorized /\ line.available_quantity \in {NullQty, UndefinedQty, NumQty(0)}) =>
        buckets = IF line.is_available THEN {"available"} ELSE {"unavailable"}

\* C9 witness: requested 5, available_quantity undefined, not flagged
\* available, categorized unavailable.
C9_Witness ==
    /\ line.quantity = 5
    /\ line.available_quantity = UndefinedQty
    /\ ~line.is_available
    /\ buckets = {"unavailable"}

====
